---- MODULE Spec2Model ----
(***************************************************************************)
(* Model of silver_gl's Framebuffer, MultiBindModel / BindlessModel and    *)
(* UniformBuffer wrappers (src/src/framebuffer.rs, model.rs,               *)
(* uniform_buffer.rs).  Every operation is one action; the native calls an *)
(* operation issues are recorded, in order, in `calls`, and what it        *)
(* returns in `result`.                                                    *)
(***************************************************************************)
EXTENDS Integers, Sequences, FiniteSets, TLC

\* ---- bounds ----
MaxFb == 2          \* Framebuffer values alive at once
MaxTex == 2         \* textures ever created
MaxTexNum == 2      \* largest tex_num / n passed to new / gen_textures
MaxLink == 2        \* longest quad input list / caller-held vector
MaxMesh == 2        \* meshes per model
MaxInst == 2        \* largest transform buffer element count
MaxUb == 2          \* UniformBuffer values alive at once
MaxProgs == 2       \* shader programs, and longest shader_programs vector

\* ---- program constants ----
COLOR_ATTACHMENT0 == 36064
TEXTURE0 == 33984

VARIABLES
    fbs,        \* Framebuffer values: slot -> <<>> (none) or <<record>>
    texRc,      \* Rc strong count of every texture
    texRel,     \* how often the texture's native resource was released
    texSize,    \* native dimensions of every texture
    nextTex,    \* next texture handle
    glFb,       \* native framebuffer objects by handle
    held,       \* Vec<Rc<Texture>> in the caller's hands (from get_link / get)
    model,      \* the Model under test: <<>> or <<record>>
    ubos,       \* UniformBuffer values: slot -> <<>> or <<record>>
    glBuf,      \* native buffer objects: handle -> size, 0 = no such buffer
    binding0,   \* what is bound at GL_UNIFORM_BUFFER binding point 0
    progBlocks, \* per shader program: the uniform block names it declares
    progBound,  \* per shader program: uniform block names bound to point 0
    lastBinder, \* slot of the UniformBuffer that last bound itself (0 = none)
    calls,      \* native calls of the latest operation, in order
    result      \* what the latest operation returned

vars == <<fbs, texRc, texRel, texSize, nextTex, glFb, held, model,
          ubos, glBuf, binding0, progBlocks, progBound, lastBinder, calls,
          result>>

fbVars == <<fbs, texRc, texRel, texSize, nextTex, glFb, held>>
modelVars == <<model>>
ubVars == <<ubos, glBuf, binding0, progBlocks, progBound, lastBinder>>

\* ---- small helpers ----
Range(s) == {s[i] : i \in 1..Len(s)}

Count(s, x) == Cardinality({i \in 1..Len(s) : s[i] = x})

\* Sample data.  The code only stores, passes on and compares these values.
Widths == {640, 800}
Heights == {480, 600}
IndexCounts == {3, 6}
IndexOffsets == {0, 3}
BufferSizes == {64, 128}
WriteOffsets == {0, 16}
Textures == 1..MaxTex
FbSlots == 1..MaxFb
Handles == 1..MaxFb

IsCall(c, name) == c[1] = name
CallsNamed(cs, name) == {i \in 1..Len(cs) : IsCall(cs[i], name)}

\* ----------------------------------------------------------------------
\* Shared texture ownership (Rc<Texture>) -- src/src/framebuffer.rs
\* ----------------------------------------------------------------------
\* The "world" an operation works on: texture tables, native framebuffer
\* objects and the calls issued so far.
World == [rc |-> texRc, rel |-> texRel, size |-> texSize, next |-> nextTex,
          gl |-> glFb, calls |-> <<>>]

Emit(w, c) == [w EXCEPT !.calls = Append(@, c)]

NoGlFb == [exists |-> FALSE, color |-> [i \in 0..(MaxTexNum - 1) |-> 0],
           draw |-> <<>>, depth |-> FALSE]

\* Texture::new_mut(width, height): a new native texture of that size.
Texture_new_mut(w, width, height) ==
    LET t == w.next
    IN Emit([w EXCEPT !.next = @ + 1, !.size[t] = <<width, height>>],
            <<"Texture::new_mut", t, width, height>>)

\* Texture::resize(width, height): the texture has the new size when it
\* returns Ok; when it fails the texture is resized or not (partial).
Texture_resize(w, t, dims, ok, partial) ==
    Emit(IF ok \/ partial THEN [w EXCEPT !.size[t] = dims] ELSE w,
         <<"Texture::resize", t, dims[1], dims[2]>>)

\* Drop for Texture: the native texture is released.
Drop_Texture(w, t) ==
    Emit([w EXCEPT !.rel[t] = @ + 1, !.size[t] = <<0, 0>>], <<"DeleteTextures", t>>)

\* Rc::clone: one more strong reference.
RcClone(w, t) == [w EXCEPT !.rc[t] = @ + 1]

\* Dropping one Rc<Texture>: the count goes down; the last reference drops the
\* Texture itself, which releases the native texture.
RcDrop(w, t) ==
    IF w.rc[t] = 1
    THEN Drop_Texture([w EXCEPT !.rc[t] = 0], t)
    ELSE [w EXCEPT !.rc[t] = @ - 1]

RECURSIVE RcCloneAll(_, _)
RcCloneAll(w, ts) ==
    IF ts = <<>> THEN w ELSE RcCloneAll(RcClone(w, Head(ts)), Tail(ts))

RECURSIVE RcDropAll(_, _)
RcDropAll(w, ts) ==
    IF ts = <<>> THEN w ELSE RcDropAll(RcDrop(w, Head(ts)), Tail(ts))

\* ----------------------------------------------------------------------
\* Framebuffer -- src/src/framebuffer.rs
\* ----------------------------------------------------------------------
attachment(i) == COLOR_ATTACHMENT0 + i

\* Framebuffer::new_default: no native object yet (id 0), empty lists, a
\* quad whose single mesh has no input textures.
new_default(width, height) ==
    [id |-> 0, textures |-> <<>>, draw_buffers |-> <<>>, inputs |-> <<>>,
     width |-> width, height |-> height, render_buffer |-> <<>>]

\* gl::NamedFramebufferTexture: handle 0 names the default framebuffer, which
\* takes no attachments.
NamedFramebufferTexture(w, id, att, t) ==
    LET w1 == Emit(w, <<"NamedFramebufferTexture", id, att, t>>)
    IN IF id = 0 THEN w1
       ELSE [w1 EXCEPT !.gl[id].color[att - COLOR_ATTACHMENT0] = t]

NamedFramebufferDrawBuffers(w, id, bufs) ==
    LET w1 == Emit(w, <<"NamedFramebufferDrawBuffers", id, Len(bufs)>>)
    IN IF id = 0 THEN w1 ELSE [w1 EXCEPT !.gl[id].draw = bufs]

\* One iteration of the loop of gen_textures, then the rest of them.
RECURSIVE gen_textures_loop(_, _, _)
gen_textures_loop(st, i, n) ==
    IF i >= n THEN st
    ELSE LET w == st.w
             fb == st.fb
             t == w.next
             w1 == Texture_new_mut(w, fb.width, fb.height)
             w2 == NamedFramebufferTexture(w1, fb.id, attachment(i), t)
             w3 == [w2 EXCEPT !.rc[t] = 1]
             fb1 == [fb EXCEPT !.textures = Append(@, t),
                               !.draw_buffers = Append(@, attachment(i))]
         IN gen_textures_loop([w |-> w3, fb |-> fb1], i + 1, n)

\* Variant: the loop starts at 1.
gen_textures_from_one(st, n) ==
    LET s1 == gen_textures_loop(st, 1, n)
    IN [s1 EXCEPT !.w = NamedFramebufferDrawBuffers(s1.w, s1.fb.id,
                                                     s1.fb.draw_buffers)]

gen_textures(st, n) ==
    LET s1 == gen_textures_loop(st, 0, n)
    IN [s1 EXCEPT !.w = NamedFramebufferDrawBuffers(s1.w, s1.fb.id,
                                                     s1.fb.draw_buffers)]

\* gen_render_buffer: a fresh RenderBuffer of the framebuffer's size replaces
\* the old one.
gen_render_buffer(st) ==
    LET fb == st.fb
        w1 == Emit(st.w, <<"RenderBuffer::new", fb.width, fb.height>>)
        w2 == Emit(w1, <<"NamedFramebufferRenderbuffer", fb.id>>)
        w3 == IF fb.id = 0 THEN w2 ELSE [w2 EXCEPT !.gl[fb.id].depth = TRUE]
        w4 == IF fb.render_buffer = <<>> THEN w3
              ELSE Emit(w3, <<"DeleteRenderbuffers", fb.id>>)
    IN [w |-> w4,
        fb |-> [fb EXCEPT !.render_buffer =
                    <<[width |-> fb.width, height |-> fb.height]>>]]

\* check_status: the driver's answer `complete` decides.
check_status(st, complete) ==
    [w |-> Emit(st.w, <<"CheckNamedFramebufferStatus", st.fb.id>>),
     fb |-> st.fb,
     res |-> IF complete THEN <<"Ok">>
             ELSE <<"FramebufferNotComplete", st.fb.id>>]

\* Drop for Framebuffer, then its fields in declaration order: the
\* attachment list, the quad's input textures, the render buffer.
Drop_Framebuffer(w, fb) ==
    LET w1 == Emit(w, <<"DeleteFramebuffers", fb.id>>)
        w2 == IF fb.id = 0 THEN w1 ELSE [w1 EXCEPT !.gl[fb.id] = NoGlFb]
        w3 == RcDropAll(w2, fb.textures)
        w4 == RcDropAll(w3, fb.inputs)
    IN IF fb.render_buffer = <<>> THEN w4
       ELSE Emit(w4, <<"DeleteRenderbuffers", fb.id>>)

\* gl::CreateFramebuffers hands out a name that is not in use: the one
\* reserved for the Framebuffer value being built.
CreateFramebuffers(w, id) ==
    Emit([w EXCEPT !.gl[id].exists = TRUE], <<"CreateFramebuffers", id>>)

\* Variant: completeness is checked before the render buffer is attached.
new_check_early(w, id, width, height, tex_num, has_rb, complete) ==
    LET fb0 == new_default(width, height)
        w1 == CreateFramebuffers(w, id)
        s1 == gen_textures([w |-> w1, fb |-> [fb0 EXCEPT !.id = id]], tex_num)
        s2 == check_status(s1, complete)
        s3 == IF has_rb THEN gen_render_buffer(s2) ELSE s2
    IN IF s2.res[1] = "Ok"
       THEN [w |-> s3.w, fb |-> <<s3.fb>>, res |-> s2.res]
       ELSE [w |-> Drop_Framebuffer(s3.w, s3.fb), fb |-> <<>>, res |-> s2.res]

\* Framebuffer::new.  fb is <<>> when the constructor returned Err.
new(w, id, width, height, tex_num, has_rb, complete) ==
    LET fb0 == new_default(width, height)
        w1 == CreateFramebuffers(w, id)
        s1 == gen_textures([w |-> w1, fb |-> [fb0 EXCEPT !.id = id]], tex_num)
        s2 == IF has_rb THEN gen_render_buffer(s1) ELSE s1
        s3 == check_status(s2, complete)
    IN IF s3.res[1] = "Ok"
       THEN [w |-> s3.w, fb |-> <<s3.fb>>, res |-> s3.res]
       ELSE [w |-> Drop_Framebuffer(s3.w, s3.fb), fb |-> <<>>, res |-> s3.res]

\* ----------------------------------------------------------------------
\* MultiBindModel / BindlessModel -- src/src/model.rs
\* ----------------------------------------------------------------------
\* Mesh::set_textures: one texture unit per diffuse texture, in list order;
\* nothing is bound when it fails.
set_textures(mesh, ok) ==
    IF ok
    THEN [i \in 1..(2 * Len(mesh.diffuse_textures)) |->
            IF i % 2 = 1 THEN <<"ActiveTexture", TEXTURE0 + (i - 1) \div 2>>
            ELSE <<"BindTexture", mesh.diffuse_textures[i \div 2]>>]
    ELSE <<>>

\* The body of the `for mesh in &self.meshes` loop, from mesh i on.  failAt is
\* the mesh whose set_textures fails (0: none does).
RECURSIVE draw_meshes(_, _, _, _)
draw_meshes(m, i, failAt, cs) ==
    IF i > Len(m.meshes) THEN [calls |-> cs, res |-> <<"Ok">>]
    ELSE IF i = failAt
    THEN [calls |-> cs \o set_textures(m.meshes[i], FALSE),
          res |-> <<"GlError", i>>]
    ELSE draw_meshes(m, i + 1, failAt,
            cs \o set_textures(m.meshes[i], TRUE)
               \o << <<"draw_elements_offset", m.meshes[i].count,
                       m.meshes[i].offset, m.transform_len>>,
                     <<"ActiveTexture", TEXTURE0>> >>)

\* Variant: the vertex array stays bound.
MultiBindModel_draw_stays_bound(m, failAt) ==
    draw_meshes(m, 1, failAt, << <<"BindVertexArray", m.vertex_array>> >>)

\* MultiBindModel::draw
MultiBindModel_draw(m, failAt) ==
    LET d == draw_meshes(m, 1, failAt, << <<"BindVertexArray", m.vertex_array>> >>)
    IN IF d.res[1] = "Ok"
       THEN [d EXCEPT !.calls = Append(@, <<"BindVertexArray", 0>>)]
       ELSE d

\* BindlessModel::draw: the same, with the command buffer bound first.
BindlessModel_draw(m, failAt) ==
    LET d == draw_meshes(m, 1, failAt,
                 << <<"BindVertexArray", m.vertex_array>>,
                    <<"BindBuffer", m.command_buffer>> >>)
    IN IF d.res[1] = "Ok"
       THEN [d EXCEPT !.calls = Append(@, <<"BindVertexArray", 0>>)]
       ELSE d

\* ModelCreateTrait::new for the two variants: the meshes are stored as
\* given, the transform buffer holds the given transforms.
MultiBindModel_new(meshes, ntransforms) ==
    [variant |-> "MultiBind", meshes |-> meshes, vertex_array |-> 1,
     transform_len |-> ntransforms, command_buffer |-> 0]

BindlessModel_new(meshes, ntransforms) ==
    [variant |-> "Bindless", meshes |-> meshes, vertex_array |-> 1,
     transform_len |-> ntransforms, command_buffer |-> 2]

\* The quad of a Framebuffer: create_quad with one transform; a MultiBindModel
\* with one mesh whose diffuse textures are the framebuffer's inputs.
quad(fb) ==
    MultiBindModel_new(<<[count |-> 6, offset |-> 0,
                          diffuse_textures |-> fb.inputs]>>, 1)

\* ----------------------------------------------------------------------
\* Framebuffer operations, continued
\* ----------------------------------------------------------------------
\* Variant: the vector holds the references without counting them.
get_link_uncounted(w, fb) == [w |-> w, vec |-> fb.textures]

\* get_link: a new vector with a clone of every attachment's Rc.
get_link(w, fb) == [w |-> RcCloneAll(w, fb.textures), vec |-> fb.textures]

\* Variant: the texture replaces the input list.
link_push_replace(fb, t) == [fb EXCEPT !.inputs = <<t>>]

\* link_push: the texture goes to the end of the quad's input list.
link_push(fb, t) == [fb EXCEPT !.inputs = Append(@, t)]

\* link_to: link_push for each texture of the vector, in order.
RECURSIVE link_to(_, _)
link_to(fb, output) ==
    IF output = <<>> THEN fb
    ELSE link_to(link_push(fb, Head(output)), Tail(output))

\* link_to_fb: self.link_to(framebuffer.get_link())
link_to_fb(w, fb, other) ==
    LET g == get_link(w, other)
    IN [w |-> g.w, fb |-> link_to(fb, g.vec)]

\* unlink: Vec::clear drops every Rc of the input list.
unlink(w, fb) ==
    [w |-> RcDropAll(w, fb.inputs), fb |-> [fb EXCEPT !.inputs = <<>>]]

\* get: Some(clone) inside the list, None outside; index counts from 0.
get(w, fb, index) ==
    IF index < Len(fb.textures)
    THEN [w |-> RcClone(w, fb.textures[index + 1]),
          opt |-> <<fb.textures[index + 1]>>]
    ELSE [w |-> w, opt |-> <<>>]

len(fb) == Len(fb.textures)

get_size(fb) == <<fb.width, fb.height>>

\* The loop of set_size over the attachments; failAt is the attachment
\* (counted from 1) whose resize fails, 0 when none does.  A failed resize
\* leaves that texture resized or not (partial).
RECURSIVE resize_textures(_, _, _, _, _, _)
resize_textures(w, ts, i, dims, failAt, partial) ==
    IF i > Len(ts) THEN [w |-> w, res |-> <<"Ok">>]
    ELSE IF i = failAt
    THEN [w |-> Texture_resize(w, ts[i], dims, FALSE, partial),
          res |-> <<"GlError", i>>]
    ELSE resize_textures(Texture_resize(w, ts[i], dims, TRUE, partial),
                         ts, i + 1, dims, failAt, partial)

\* Variant: the render buffer is left alone.
set_size_textures_only(w, fb, width, height, failAt, partial) ==
    LET fb1 == [fb EXCEPT !.width = width, !.height = height]
        r == resize_textures(w, fb.textures, 1, <<width, height>>, failAt, partial)
    IN [w |-> r.w, fb |-> fb1, res |-> r.res]

\* Variant: width and height are recorded only once every resize succeeded.
set_size_record_last(w, fb, width, height, failAt, partial) ==
    LET r == resize_textures(w, fb.textures, 1, <<width, height>>, failAt, partial)
        fb1 == [fb EXCEPT !.width = width, !.height = height]
    IN IF r.res[1] # "Ok" THEN [w |-> r.w, fb |-> fb, res |-> r.res]
       ELSE IF fb.render_buffer = <<>> THEN [w |-> r.w, fb |-> fb1, res |-> r.res]
       ELSE [w |-> Emit(r.w, <<"RenderBuffer::resize", width, height>>),
             fb |-> [fb1 EXCEPT !.render_buffer =
                        <<[width |-> width, height |-> height]>>],
             res |-> r.res]

set_size(w, fb, width, height, failAt, partial) ==
    LET fb1 == [fb EXCEPT !.width = width, !.height = height]
        r == resize_textures(w, fb.textures, 1, <<width, height>>, failAt, partial)
    IN IF r.res[1] # "Ok" THEN [w |-> r.w, fb |-> fb1, res |-> r.res]
       ELSE IF fb.render_buffer = <<>> THEN [w |-> r.w, fb |-> fb1, res |-> r.res]
       ELSE [w |-> Emit(r.w, <<"RenderBuffer::resize", width, height>>),
             fb |-> [fb1 EXCEPT !.render_buffer =
                        <<[width |-> width, height |-> height]>>],
             res |-> r.res]

\* ----------------------------------------------------------------------
\* Actions on Framebuffers
\* ----------------------------------------------------------------------
Commit(w) ==
    /\ texRc' = w.rc
    /\ texRel' = w.rel
    /\ texSize' = w.size
    /\ nextTex' = w.next
    /\ glFb' = w.gl
    /\ calls' = w.calls

Live(s) == fbs[s] # <<>>
Fb(s) == fbs[s][1]

FbNew(s, W, H, RB) ==
    /\ ~Live(s)
    /\ \E width \in W, height \in H, tex_num \in 0..MaxTexNum,
          has_rb \in RB, complete \in BOOLEAN :
          /\ nextTex + tex_num - 1 <= MaxTex
          /\ LET r == new(World, s, width, height, tex_num, has_rb, complete)
             IN /\ Commit(r.w)
                /\ fbs' = [fbs EXCEPT ![s] = r.fb]
                /\ result' = [op |-> "new", fb |-> s, val |-> r.res,
                              arg |-> [width |-> width, height |-> height,
                                       tex_num |-> tex_num, has_rb |-> has_rb]]
    /\ UNCHANGED <<held, modelVars, ubVars>>

FbNewDefault(s, W, H) ==
    /\ ~Live(s)
    /\ \E width \in W, height \in H :
          fbs' = [fbs EXCEPT ![s] = <<new_default(width, height)>>]
    /\ calls' = <<>>
    /\ result' = [op |-> "new_default", fb |-> s, val |-> <<"Ok">>]
    /\ UNCHANGED <<texRc, texRel, texSize, nextTex, glFb, held,
                   modelVars, ubVars>>

FbGenTextures(s) ==
    /\ Live(s)
    /\ \E n \in 0..MaxTexNum :
          /\ nextTex + n - 1 <= MaxTex
          /\ LET r == gen_textures([w |-> World, fb |-> Fb(s)], n)
             IN /\ Commit(r.w)
                /\ fbs' = [fbs EXCEPT ![s] = <<r.fb>>]
                /\ result' = [op |-> "gen_textures", fb |-> s, val |-> <<"Ok", n>>]
    /\ UNCHANGED <<held, modelVars, ubVars>>

FbGenRenderBuffer(s) ==
    /\ Live(s)
    /\ LET r == gen_render_buffer([w |-> World, fb |-> Fb(s)])
       IN /\ Commit(r.w)
          /\ fbs' = [fbs EXCEPT ![s] = <<r.fb>>]
    /\ result' = [op |-> "gen_render_buffer", fb |-> s, val |-> <<"Ok">>]
    /\ UNCHANGED <<held, modelVars, ubVars>>

FbGetLink(s) ==
    /\ Live(s)
    /\ held = <<>>
    /\ LET r == get_link(World, Fb(s))
       IN /\ Commit(r.w)
          /\ held' = r.vec
          /\ result' = [op |-> "get_link", fb |-> s, val |-> r.vec]
    /\ UNCHANGED <<fbs, modelVars, ubVars>>

FbGet(s) ==
    /\ Live(s)
    /\ held = <<>>
    /\ \E index \in 0..MaxTexNum :
          LET r == get(World, Fb(s), index)
          IN /\ Commit(r.w)
             /\ held' = r.opt
             /\ result' = [op |-> "get", fb |-> s, val |-> r.opt]
    /\ UNCHANGED <<fbs, modelVars, ubVars>>

FbLinkTo(s) ==
    /\ Live(s)
    /\ held # <<>>
    /\ Len(Fb(s).inputs) + Len(held) <= MaxLink
    /\ fbs' = [fbs EXCEPT ![s] = <<link_to(Fb(s), held)>>]
    /\ held' = <<>>
    /\ calls' = <<>>
    /\ result' = [op |-> "link_to", fb |-> s, val |-> held]
    /\ UNCHANGED <<texRc, texRel, texSize, nextTex, glFb,
                   modelVars, ubVars>>

FbLinkToFb(s, other) ==
    /\ Live(s)
    /\ Live(other)
    /\ s # other
    /\ Len(Fb(s).inputs) + Len(Fb(other).textures) <= MaxLink
    /\ LET r == link_to_fb(World, Fb(s), Fb(other))
       IN /\ Commit(r.w)
          /\ fbs' = [fbs EXCEPT ![s] = <<r.fb>>]
    /\ result' = [op |-> "link_to_fb", fb |-> s, val |-> Fb(other).textures]
    /\ UNCHANGED <<held, modelVars, ubVars>>

FbLinkPush(s) ==
    /\ Live(s)
    /\ held # <<>>
    /\ Len(Fb(s).inputs) + 1 <= MaxLink
    /\ fbs' = [fbs EXCEPT ![s] = <<link_push(Fb(s), Head(held))>>]
    /\ held' = Tail(held)
    /\ calls' = <<>>
    /\ result' = [op |-> "link_push", fb |-> s, val |-> <<Head(held)>>]
    /\ UNCHANGED <<texRc, texRel, texSize, nextTex, glFb,
                   modelVars, ubVars>>

FbUnlink(s) ==
    /\ Live(s)
    /\ LET r == unlink(World, Fb(s))
       IN /\ Commit(r.w)
          /\ fbs' = [fbs EXCEPT ![s] = <<r.fb>>]
    /\ result' = [op |-> "unlink", fb |-> s, val |-> <<"Ok">>]
    /\ UNCHANGED <<held, modelVars, ubVars>>

\* The caller lets go of the vector it got from get_link / get.
DropHeld ==
    /\ held # <<>>
    /\ Commit(RcDropAll(World, held))
    /\ held' = <<>>
    /\ result' = [op |-> "drop_vec", fb |-> 0, val |-> held]
    /\ UNCHANGED <<fbs, modelVars, ubVars>>

FbDraw(s) ==
    /\ Live(s)
    /\ \E failAt \in 0..1 :
          LET d == MultiBindModel_draw(quad(Fb(s)), failAt)
          IN /\ calls' = << <<"BindFramebuffer", Fb(s).id>> >> \o d.calls
             /\ result' = [op |-> "draw", fb |-> s, val |-> d.res]
    /\ UNCHANGED <<fbs, texRc, texRel, texSize, nextTex, glFb, held,
                   modelVars, ubVars>>

FbSetSize(s) ==
    /\ Live(s)
    /\ \E width \in Widths, height \in Heights,
          failAt \in 0..Len(Fb(s).textures), partial \in BOOLEAN :
          /\ (failAt = 0 => ~partial)
          /\ LET r == set_size(World, Fb(s), width, height, failAt, partial)
             IN /\ Commit(r.w)
                /\ fbs' = [fbs EXCEPT ![s] = <<r.fb>>]
                /\ result' = [op |-> "set_size", fb |-> s, val |-> r.res,
                              arg |-> [width |-> width, height |-> height,
                                       old |-> get_size(Fb(s))]]
    /\ UNCHANGED <<held, modelVars, ubVars>>

FbDrop(s) ==
    /\ Live(s)
    /\ Commit(Drop_Framebuffer(World, Fb(s)))
    /\ fbs' = [fbs EXCEPT ![s] = <<>>]
    /\ result' = [op |-> "drop", fb |-> s, val |-> <<"Ok">>]
    /\ UNCHANGED <<held, modelVars, ubVars>>

InitFb ==
    /\ fbs = [s \in FbSlots |-> <<>>]
    /\ texRc = [t \in Textures |-> 0]
    /\ texRel = [t \in Textures |-> 0]
    /\ texSize = [t \in Textures |-> <<0, 0>>]
    /\ nextTex = 1
    /\ glFb = [h \in Handles |-> NoGlFb]
    /\ held = <<>>

\* ----------------------------------------------------------------------
\* Actions on Models
\* ----------------------------------------------------------------------
MeshTextures == {<<>>, [i \in 1..MaxTex |-> i]}

Meshes == [count : IndexCounts, offset : IndexOffsets,
           diffuse_textures : MeshTextures]

MeshLists == UNION {[1..n -> Meshes] : n \in 0..MaxMesh}

ModelNew ==
    /\ model = <<>>
    /\ \E meshes \in MeshLists, ntransforms \in 0..MaxInst :
          \/ /\ model' = <<MultiBindModel_new(meshes, ntransforms)>>
             /\ result' = [op |-> "MultiBindModel::new", fb |-> 0, val |-> <<"Ok">>]
          \/ /\ model' = <<BindlessModel_new(meshes, ntransforms)>>
             /\ result' = [op |-> "BindlessModel::new", fb |-> 0, val |-> <<"Ok">>]
    /\ calls' = <<>>
    /\ UNCHANGED <<fbVars, ubVars>>

MultiBindDraw ==
    /\ model # <<>>
    /\ model[1].variant = "MultiBind"
    /\ \E failAt \in 0..Len(model[1].meshes) :
          LET d == MultiBindModel_draw(model[1], failAt)
          IN /\ calls' = d.calls
             /\ result' = [op |-> "draw", fb |-> 0, val |-> d.res]
    /\ UNCHANGED <<fbVars, modelVars, ubVars>>

BindlessDraw ==
    /\ model # <<>>
    /\ model[1].variant = "Bindless"
    /\ \E failAt \in 0..Len(model[1].meshes) :
          LET d == BindlessModel_draw(model[1], failAt)
          IN /\ calls' = d.calls
             /\ result' = [op |-> "draw", fb |-> 0, val |-> d.res]
    /\ UNCHANGED <<fbVars, modelVars, ubVars>>

NextModel ==
    \/ ModelNew
    \/ MultiBindDraw
    \/ BindlessDraw

InitModel == model = <<>>

\* ----------------------------------------------------------------------
\* UniformBuffer -- src/src/uniform_buffer.rs
\* ----------------------------------------------------------------------
Names == {"Matrices"}
Programs == 1..MaxProgs
UbSlots == 1..MaxUb
BufHandles == 1..MaxUb

UbWorld == [buf |-> glBuf, bind |-> binding0, prog |-> progBound,
            last |-> lastBinder, calls |-> <<>>]

\* ShaderProgram::bind_to_ubo: the named block of the program is set to
\* binding point 0; an error when the program declares no such block.
bind_to_ubo(w, p, name) ==
    IF name \in progBlocks[p]
    THEN [w |-> Emit([w EXCEPT !.prog[p] = @ \cup {name}], <<"bind_to_ubo", p>>),
          res |-> <<"Ok">>]
    ELSE [w |-> Emit(w, <<"bind_to_ubo", p>>), res |-> <<"GlError", p>>]

register_shader_program(w, ub, p) == bind_to_ubo(w, p, ub.name)

\* The `for shader_program in shader_programs.iter()` loop with its `?`.
RECURSIVE register_all(_, _, _)
register_all(w, ub, progs) ==
    IF progs = <<>> THEN [w |-> w, res |-> <<"Ok">>]
    ELSE LET r == register_shader_program(w, ub, Head(progs))
         IN IF r.res[1] = "Ok" THEN register_all(r.w, ub, Tail(progs))
            ELSE r

\* gl::BindBufferRange(GL_UNIFORM_BUFFER, index, buffer, offset, size)
BindBufferRange(w, index, id, offset, size) ==
    LET w1 == Emit(w, <<"BindBufferRange", index, id, offset, size>>)
    IN IF index = 0
       THEN [w1 EXCEPT !.bind = <<[buf |-> id, offset |-> offset, size |-> size]>>]
       ELSE w1

FreshBuffer(w) == CHOOSE h \in BufHandles :
                     /\ w.buf[h] = 0
                     /\ \A g \in BufHandles : g < h => w.buf[g] # 0

\* `last` remembers whose create_ubo / bind_ubo ran last.
create_ubo(w, slot, ub) ==
    LET id == FreshBuffer(w)
        w1 == Emit(w, <<"CreateBuffers", id>>)
        w2 == Emit([w1 EXCEPT !.buf[id] = ub.buffer_size],
                   <<"NamedBufferData", id, ub.buffer_size>>)
        w3 == BindBufferRange(w2, 0, id, 0, ub.buffer_size)
    IN [w |-> [w3 EXCEPT !.last = slot], ub |-> [ub EXCEPT !.id = id]]

\* Variant: the buffer is bound at binding point 1.
bind_ubo_point_one(w, slot, ub) ==
    [BindBufferRange(w, 1, ub.id, 0, ub.buffer_size) EXCEPT !.last = slot]

bind_ubo(w, slot, ub) ==
    [BindBufferRange(w, 0, ub.id, 0, ub.buffer_size) EXCEPT !.last = slot]

\* Drop for UniformBuffer.  Deleting a buffer unbinds it; the name 0 is
\* silently ignored.
Drop_UniformBuffer(w, slot, ub) ==
    LET w1 == Emit(w, <<"DeleteBuffers", ub.id>>)
        w2 == IF ub.id = 0 THEN w1 ELSE [w1 EXCEPT !.buf[ub.id] = 0]
        w3 == IF ub.id # 0 /\ w2.bind # <<>> /\ w2.bind[1].buf = ub.id
              THEN [w2 EXCEPT !.bind = <<>>] ELSE w2
    IN IF w3.last = slot THEN [w3 EXCEPT !.last = 0] ELSE w3

\* Variant: the buffer is created before the programs are registered.
UniformBuffer_new_create_first(w, slot, progs, name, buffer_size) ==
    LET ub0 == [id |-> 0, name |-> name, buffer_size |-> buffer_size]
        c == create_ubo(w, slot, ub0)
        r == register_all(c.w, c.ub, progs)
    IN IF r.res[1] = "Ok"
       THEN [w |-> r.w, ub |-> <<c.ub>>, res |-> r.res]
       ELSE [w |-> Drop_UniformBuffer(r.w, slot, c.ub), ub |-> <<>>, res |-> r.res]

\* UniformBuffer::new.  ub is <<>> when the constructor returned Err.
UniformBuffer_new(w, slot, progs, name, buffer_size) ==
    LET ub0 == [id |-> 0, name |-> name, buffer_size |-> buffer_size]
        r == register_all(w, ub0, progs)
    IN IF r.res[1] = "Ok"
       THEN LET c == create_ubo(r.w, slot, ub0)
            IN [w |-> c.w, ub |-> <<c.ub>>, res |-> r.res]
       ELSE [w |-> Drop_UniformBuffer(r.w, 0, ub0), ub |-> <<>>, res |-> r.res]

UbCommit(w) ==
    /\ glBuf' = w.buf
    /\ binding0' = w.bind
    /\ progBound' = w.prog
    /\ lastBinder' = w.last
    /\ calls' = w.calls

UbLive(s) == ubos[s] # <<>>
Ub(s) == ubos[s][1]

\* The vectors passed to new: the first n programs, in order.  Which of them
\* declare the block is free (InitPrograms), so every position of the first
\* failure occurs.
ProgLists == {[i \in 1..n |-> i] : n \in 0..MaxProgs}

UbNew(s) ==
    /\ ~UbLive(s)
    /\ \E h \in BufHandles : glBuf[h] = 0
    /\ \E progs \in ProgLists, name \in Names, buffer_size \in BufferSizes :
          LET r == UniformBuffer_new(UbWorld, s, progs, name, buffer_size)
          IN /\ UbCommit(r.w)
             /\ ubos' = [ubos EXCEPT ![s] = r.ub]
             /\ result' = [op |-> "new", fb |-> s, val |-> r.res,
                           arg |-> [progs |-> progs, name |-> name,
                                    buffer_size |-> buffer_size]]
    /\ UNCHANGED <<fbVars, modelVars, progBlocks>>

UbRegister(s) ==
    /\ UbLive(s)
    /\ \E p \in Programs :
          LET r == register_shader_program(UbWorld, Ub(s), p)
          IN /\ UbCommit(r.w)
             /\ result' = [op |-> "register_shader_program", fb |-> s,
                           val |-> r.res, arg |-> <<p>>]
    /\ UNCHANGED <<fbVars, modelVars, progBlocks, ubos>>

UbBind(s) ==
    /\ UbLive(s)
    /\ UbCommit(bind_ubo(UbWorld, s, Ub(s)))
    /\ result' = [op |-> "bind_ubo", fb |-> s, val |-> <<"Ok">>, arg |-> <<>>]
    /\ UNCHANGED <<fbVars, modelVars, progBlocks, ubos>>

\* write_data: size_of::<T>() bytes at `offset`; bindings are not touched.
UbWrite(s) ==
    /\ UbLive(s)
    /\ \E offset \in WriteOffsets :
          UbCommit(Emit(UbWorld, <<"NamedBufferSubData", Ub(s).id, offset>>))
    /\ result' = [op |-> "write_data", fb |-> s, val |-> <<"Ok">>, arg |-> <<>>]
    /\ UNCHANGED <<fbVars, modelVars, progBlocks, ubos>>

UbDrop(s) ==
    /\ UbLive(s)
    /\ UbCommit(Drop_UniformBuffer(UbWorld, s, Ub(s)))
    /\ ubos' = [ubos EXCEPT ![s] = <<>>]
    /\ result' = [op |-> "drop", fb |-> s, val |-> <<"Ok">>, arg |-> <<>>]
    /\ UNCHANGED <<fbVars, modelVars, progBlocks>>

NextUb ==
    \/ \E s \in UbSlots : UbNew(s)
    \/ \E s \in UbSlots : UbRegister(s)
    \/ \E s \in UbSlots : UbBind(s)
    \/ \E s \in UbSlots : UbWrite(s)
    \/ \E s \in UbSlots : UbDrop(s)

InitUb ==
    /\ ubos = [s \in UbSlots |-> <<>>]
    /\ glBuf = [h \in BufHandles |-> 0]
    /\ binding0 = <<>>
    /\ progBlocks = [p \in Programs |-> {}]
    /\ progBound = [p \in Programs |-> {}]
    /\ lastBinder = 0

Init ==
    /\ InitFb
    /\ InitModel
    /\ InitUb
    /\ calls = <<>>
    /\ result = [op |-> "init", fb |-> 0, val |-> <<"Ok">>]

\* Resizing and attachment generation involve one Framebuffer only.
ShapeSlots == {MaxFb}

NextFbShape ==
    \/ \E s \in ShapeSlots : FbNew(s, Widths, Heights, BOOLEAN)
    \/ \E s \in ShapeSlots : FbNewDefault(s, Widths, Heights)
    \/ \E s \in ShapeSlots : FbGenTextures(s)
    \/ \E s \in ShapeSlots : FbGenRenderBuffer(s)
    \/ \E s \in ShapeSlots : FbSetSize(s)
    \/ \E s \in ShapeSlots : FbDrop(s)

SpecFbShape == Init /\ [][NextFbShape]_vars

\* Linking looks neither at dimensions nor at the render buffer: every
\* Framebuffer has the same dimensions and no render buffer.
LinkWidths == {640}
LinkHeights == {480}

NextFbLink ==
    \/ \E s \in FbSlots : FbNew(s, LinkWidths, LinkHeights, {FALSE})
    \/ \E s \in FbSlots : FbGetLink(s)
    \/ \E s \in FbSlots : FbGet(s)
    \/ \E s \in FbSlots : FbLinkTo(s)
    \/ \E s \in FbSlots, other \in FbSlots : FbLinkToFb(s, other)
    \/ \E s \in FbSlots : FbLinkPush(s)
    \/ \E s \in FbSlots : FbUnlink(s)
    \/ DropHeld
    \/ \E s \in FbSlots : FbDraw(s)
    \/ \E s \in FbSlots : FbDrop(s)

SpecFbLink == Init /\ [][NextFbLink]_vars

SpecModel == Init /\ [][NextModel]_vars

\* The shader programs exist before any UniformBuffer does; each declares
\* the block or does not.
InitPrograms ==
    /\ InitFb
    /\ InitModel
    /\ ubos = [s \in UbSlots |-> <<>>]
    /\ glBuf = [h \in BufHandles |-> 0]
    /\ binding0 = <<>>
    /\ progBlocks \in [Programs -> SUBSET Names]
    /\ progBound = [p \in Programs |-> {}]
    /\ lastBinder = 0
    /\ calls = <<>>
    /\ result = [op |-> "init", fb |-> 0, val |-> <<"Ok">>, arg |-> <<>>]

SpecUb == InitPrograms /\ [][NextUb]_vars

\* ----------------------------------------------------------------------
\* Properties of Framebuffer construction and resizing (SpecFbShape)
\* ----------------------------------------------------------------------
NewOk == result.op = "new" /\ result.val[1] = "Ok"

\* C1: a Framebuffer that new(width, height, N, has_rb) returned has exactly
\* N colour attachments: len() is N, get_link() returns N textures, the i-th
\* of them is the texture attached at slot COLOR_ATTACHMENT0 + i, and each was
\* created with the framebuffer's width and height.
C1_NewHasNAttachments ==
    NewOk =>
        LET fb == Fb(result.fb)
            N == result.arg.tex_num
            link == get_link(World, fb).vec
        IN /\ len(fb) = N
           /\ Len(link) = N
           /\ get_size(fb) = <<result.arg.width, result.arg.height>>
           /\ \A i \in 0..(N - 1) :
                 /\ link[i + 1] \in Textures
                 /\ glFb[fb.id].color[i] = link[i + 1]
                 /\ fb.draw_buffers[i + 1] = COLOR_ATTACHMENT0 + i
                 /\ texSize[link[i + 1]] = <<fb.width, fb.height>>
                 /\ \E j \in 1..Len(calls) :
                       /\ IsCall(calls[j], "NamedFramebufferTexture")
                       /\ calls[j] = <<"NamedFramebufferTexture", fb.id,
                                       COLOR_ATTACHMENT0 + i, link[i + 1]>>
           /\ \A i, j \in 1..N : i # j => link[i] # link[j]

C1_Witness ==
    /\ NewOk
    /\ result.arg.tex_num = MaxTexNum
    /\ len(Fb(result.fb)) = MaxTexNum

ConfigCalls ==
    CallsNamed(calls, "NamedFramebufferTexture")
        \cup CallsNamed(calls, "NamedFramebufferDrawBuffers")
        \cup CallsNamed(calls, "NamedFramebufferRenderbuffer")

\* C6: Framebuffer::new checks completeness exactly once, after every colour
\* attachment was attached, the draw buffers registered and (with has_rb) the
\* render buffer attached; when the check fails, new returns
\* FramebufferNotComplete with the handle it created, returns no Framebuffer
\* and the native framebuffer is deleted.
C6_CheckAfterConfiguration ==
    result.op = "new" =>
        LET checks == CallsNamed(calls, "CheckNamedFramebufferStatus")
            id == calls[1][2]
        IN /\ IsCall(calls[1], "CreateFramebuffers")
           /\ Cardinality(checks) = 1
           /\ \A c \in checks : \A j \in ConfigCalls : j < c
           /\ Cardinality(CallsNamed(calls, "NamedFramebufferTexture"))
                 = result.arg.tex_num
           /\ Cardinality(CallsNamed(calls, "NamedFramebufferDrawBuffers")) = 1
           /\ Cardinality(CallsNamed(calls, "NamedFramebufferRenderbuffer"))
                 = (IF result.arg.has_rb THEN 1 ELSE 0)
           /\ \A j \in 2..Len(calls) :
                 calls[j][1] \in {"NamedFramebufferTexture",
                     "NamedFramebufferDrawBuffers", "NamedFramebufferRenderbuffer",
                     "CheckNamedFramebufferStatus"} => calls[j][2] = id
           /\ result.val[1] # "Ok" =>
                 /\ result.val = <<"FramebufferNotComplete", id>>
                 /\ fbs[result.fb] = <<>>
                 /\ ~glFb[id].exists
                 /\ \E d \in CallsNamed(calls, "DeleteFramebuffers") :
                       /\ calls[d][2] = id
                       /\ \A c \in checks : c < d
           /\ result.val[1] = "Ok" =>
                 /\ Live(result.fb)
                 /\ Fb(result.fb).id = id
                 /\ glFb[id].exists
                 /\ CallsNamed(calls, "DeleteFramebuffers") = {}

C6_Witness ==
    /\ result.op = "new"
    /\ result.val[1] = "FramebufferNotComplete"
    /\ result.arg.has_rb
    /\ result.arg.tex_num = MaxTexNum

\* C4: when set_size(w2, h2) returns Ok, every colour attachment texture and
\* the render buffer (if present) have dimensions (w2, h2), get_size() returns
\* (w2, h2), and the attachments and draw-buffer slots are the same, in the
\* same order, as before.
C4_SetSizeOk ==
    [][(result'.op = "set_size" /\ result'.val[1] = "Ok") =>
        LET old == fbs[result'.fb][1]
            now == fbs'[result'.fb][1]
            d == <<result'.arg.width, result'.arg.height>>
        IN /\ now.textures = old.textures
           /\ now.draw_buffers = old.draw_buffers
           /\ now.id = old.id
           /\ glFb' = glFb
           /\ \A i \in 1..Len(now.textures) : texSize'[now.textures[i]] = d
           /\ Len(old.render_buffer) = Len(now.render_buffer)
           /\ \A i \in 1..Len(now.render_buffer) :
                 <<now.render_buffer[i].width, now.render_buffer[i].height>> = d
           /\ get_size(now) = d]_vars

C4_Witness ==
    /\ result.op = "set_size"
    /\ result.val[1] = "Ok"
    /\ Len(Fb(result.fb).textures) = MaxTexNum
    /\ Fb(result.fb).render_buffer # <<>>
    /\ result.arg.old[1] # result.arg.width
    /\ result.arg.old[2] # result.arg.height

\* C5: when the resize of the k-th colour attachment fails, set_size returns
\* that error with no rollback: the attachments before k have the new size,
\* those after k and the render buffer keep the size they had, and get_size()
\* already reports the new size.
C5_SetSizeFailure ==
    [][(result'.op = "set_size" /\ result'.val[1] = "GlError") =>
        LET old == fbs[result'.fb][1]
            now == fbs'[result'.fb][1]
            k == result'.val[2]
            d == <<result'.arg.width, result'.arg.height>>
        IN /\ k \in 1..Len(old.textures)
           /\ now.textures = old.textures
           /\ \A i \in 1..(k - 1) : texSize'[now.textures[i]] = d
           /\ \A i \in (k + 1)..Len(now.textures) :
                 texSize'[now.textures[i]] = texSize[now.textures[i]]
           /\ now.render_buffer = old.render_buffer
           /\ get_size(now) = d
           /\ \A j \in CallsNamed(calls', "Texture::resize") :
                 \E i \in 1..k : calls'[j][2] = now.textures[i]
           /\ CallsNamed(calls', "RenderBuffer::resize") = {}]_vars

C5_Witness ==
    /\ result.op = "set_size"
    /\ result.val = <<"GlError", 1>>
    /\ Len(Fb(result.fb).textures) = MaxTexNum
    /\ Fb(result.fb).render_buffer # <<>>
    /\ get_size(Fb(result.fb)) # result.arg.old
    /\ <<Fb(result.fb).render_buffer[1].width,
         Fb(result.fb).render_buffer[1].height>> = result.arg.old
    /\ texSize[Fb(result.fb).textures[MaxTexNum]] = result.arg.old

\* C10: attachment list and draw-buffer list have equal length and, for every
\* index i, draw_buffers[i] is COLOR_ATTACHMENT0 + i and textures[i] is the
\* texture attached at that slot of the framebuffer's native object; no slot
\* appears twice.
C10_SlotOrder ==
    \A s \in FbSlots : Live(s) =>
        LET fb == Fb(s)
        IN /\ Len(fb.textures) = Len(fb.draw_buffers)
           /\ \A i \in 1..Len(fb.draw_buffers) :
                 /\ fb.draw_buffers[i] = COLOR_ATTACHMENT0 + (i - 1)
                 /\ fb.id # 0 => glFb[fb.id].color[i - 1] = fb.textures[i]
           /\ \A i, j \in 1..Len(fb.draw_buffers) :
                 i # j => fb.draw_buffers[i] # fb.draw_buffers[j]

\* ----------------------------------------------------------------------
\* Properties of linking and shared textures (SpecFbLink)
\* ----------------------------------------------------------------------
InputsOf(f, s) == IF f[s] = <<>> THEN <<>> ELSE f[s][1].inputs

\* C2: the quad input list of a Framebuffer is the concatenation, in call
\* order, of everything linked since the last unlink(): link_to_fb(A) appends
\* A's output textures in slot order, link_to appends the given vector,
\* link_push one texture, nothing else touches the list, unlink() empties it,
\* and draw binds exactly the textures of the list (none after unlink).
C2_InputsAccumulate ==
    [][\A s \in FbSlots :
        LET old == InputsOf(fbs, s)
            now == InputsOf(fbs', s)
            mine == result'.fb = s
        IN /\ (mine /\ result'.op = "link_to_fb") =>
                 \E a \in FbSlots \ {s} :
                    /\ fbs[a] # <<>>
                    /\ result'.val = fbs[a][1].textures
                    /\ now = old \o fbs[a][1].textures
           /\ (mine /\ result'.op = "link_to") => now = old \o held /\ held' = <<>>
           /\ (mine /\ result'.op = "link_push") => now = Append(old, Head(held))
           /\ (mine /\ result'.op = "unlink") => now = <<>>
           /\ (mine /\ result'.op = "draw" /\ result'.val[1] = "Ok") =>
                 /\ now = old
                 /\ LET b == SelectSeq(calls', LAMBDA c : IsCall(c, "BindTexture"))
                    IN /\ Len(b) = Len(now)
                       /\ \A i \in 1..Len(b) : b[i][2] = now[i]
           /\ (~mine /\ fbs[s] # <<>> /\ fbs'[s] # <<>>) => now = old
           /\ (mine /\ result'.op \in {"get_link", "get"}) => now = old]_vars

C2_Witness ==
    /\ result.op = "link_to_fb"
    /\ Live(result.fb)
    /\ Len(Fb(result.fb).inputs) = 2
    /\ Fb(result.fb).inputs[1] = Fb(result.fb).inputs[2]

Holders(t) ==
    LET F(s) == IF Live(s) THEN Count(Fb(s).textures, t) + Count(Fb(s).inputs, t)
                ELSE 0
        Sum[n \in 0..MaxFb] == IF n = 0 THEN 0 ELSE Sum[n - 1] + F(n)
    IN Sum[MaxFb] + Count(held, t)

\* C3: a texture's native resource is released only when its last holder
\* (an attachment list, a quad input list, a vector from get_link / get) has
\* dropped it, and exactly once; so dropping a Framebuffer whose textures are
\* linked into another live Framebuffer releases none of those textures.
C3_SharedTexturesStayAlive ==
    \A t \in Textures :
        /\ texRel[t] \in {0, 1}
        /\ (t < nextTex) => (texRel[t] = 1 <=> Holders(t) = 0)
        /\ (t >= nextTex) => texRel[t] = 0
        /\ texRc[t] = Holders(t)
        /\ \A s \in FbSlots :
              (Live(s) /\ t \in Range(Fb(s).inputs) \cup Range(Fb(s).textures))
                  => texRel[t] = 0

C3_Witness ==
    /\ result.op = "drop"
    /\ CallsNamed(calls, "DeleteTextures") = {}
    /\ \E s \in FbSlots :
          /\ Live(s)
          /\ Fb(s).inputs # <<>>
          /\ \A t \in Range(Fb(s).inputs) :
                /\ texRel[t] = 0
                /\ \A a \in FbSlots : Live(a) => t \notin Range(Fb(a).textures)

\* ----------------------------------------------------------------------
\* Properties of Model::draw (SpecModel)
\* ----------------------------------------------------------------------
DrawCalls(cs) == SelectSeq(cs, LAMBDA c : IsCall(c, "draw_elements_offset"))

\* C7: a draw of either model variant that returns Ok issues exactly one
\* instanced indexed draw call per mesh, in mesh order, with the mesh's index
\* count and offset and the transform buffer's element count as instance
\* count; the active texture unit is reset to TEXTURE0 right after each draw
\* call and the vertex array is unbound at the end.
C7_OneDrawPerMesh ==
    (result.op = "draw" /\ result.val[1] = "Ok" /\ model # <<>>) =>
        LET m == model[1]
            d == DrawCalls(calls)
        IN /\ Len(d) = Len(m.meshes)
           /\ \A i \in 1..Len(d) :
                 d[i] = <<"draw_elements_offset", m.meshes[i].count,
                          m.meshes[i].offset, m.transform_len>>
           /\ \A j \in CallsNamed(calls, "draw_elements_offset") :
                 /\ j < Len(calls)
                 /\ IsCall(calls[j + 1], "ActiveTexture")
                 /\ calls[j + 1][2] = TEXTURE0
           /\ calls[1] = <<"BindVertexArray", m.vertex_array>>
           /\ calls[Len(calls)] = <<"BindVertexArray", 0>>
           /\ CallsNamed(calls, "BindVertexArray") = {1, Len(calls)}

C7_Witness ==
    /\ result.op = "draw"
    /\ result.val[1] = "Ok"
    /\ model # <<>>
    /\ model[1].variant = "Bindless"
    /\ Len(model[1].meshes) = MaxMesh
    /\ model[1].meshes[1].count # model[1].meshes[2].count
    /\ model[1].meshes[1].diffuse_textures # <<>>
    /\ model[1].transform_len = MaxInst

\* ----------------------------------------------------------------------
\* Properties of UniformBuffer (SpecUb)
\* ----------------------------------------------------------------------
\* Index of the first program of the list that does not declare the block;
\* 0 when every program declares it.
RECURSIVE FirstFailing(_, _, _)
FirstFailing(progs, name, i) ==
    IF i > Len(progs) THEN 0
    ELSE IF name \notin progBlocks[progs[i]] THEN i
    ELSE FirstFailing(progs, name, i + 1)

\* C8: UniformBuffer::new binds the block in the programs in list order before
\* it allocates anything: when bind_to_ubo fails for the k-th program, new
\* returns that error, no later program is bound, no buffer is created or
\* bound to binding point 0 and no UniformBuffer is returned; when every
\* program binds, a buffer of buffer_size bytes is created and bound to
\* binding point 0.
C8_RegisterBeforeAllocate ==
    [][(result'.op = "new" /\ "arg" \in DOMAIN result') =>
        LET progs == result'.arg.progs
            size == result'.arg.buffer_size
            k == FirstFailing(progs, result'.arg.name, 1)
            n == IF k = 0 THEN Len(progs) ELSE k
            s == result'.fb
        IN /\ \A i \in 1..n : calls'[i] = <<"bind_to_ubo", progs[i]>>
           /\ Cardinality(CallsNamed(calls', "bind_to_ubo")) = n
           /\ k # 0 =>
                 /\ result'.val = <<"GlError", progs[k]>>
                 /\ ubos'[s] = <<>>
                 /\ glBuf' = glBuf
                 /\ binding0' = binding0
                 /\ CallsNamed(calls', "CreateBuffers") = {}
                 /\ CallsNamed(calls', "NamedBufferData") = {}
                 /\ CallsNamed(calls', "BindBufferRange") = {}
           /\ k = 0 =>
                 /\ result'.val[1] = "Ok"
                 /\ ubos'[s] # <<>>
                 /\ LET id == ubos'[s][1].id
                    IN /\ id \in BufHandles
                       /\ glBuf[id] = 0
                       /\ glBuf' = [glBuf EXCEPT ![id] = size]
                       /\ binding0' = <<[buf |-> id, offset |-> 0, size |-> size]>>
                       /\ calls'[n + 1] = <<"CreateBuffers", id>>
                       /\ calls'[n + 2] = <<"NamedBufferData", id, size>>
                       /\ calls'[n + 3] = <<"BindBufferRange", 0, id, 0, size>>
                       /\ Len(calls') = n + 3]_vars

C8_Witness ==
    /\ result.op = "new"
    /\ result.val[1] = "GlError"
    /\ Len(result.arg.progs) = MaxProgs
    /\ FirstFailing(result.arg.progs, result.arg.name, 1) = 2
    /\ binding0 # <<>>

Bound(s) ==
    binding0 = <<[buf |-> Ub(s).id, offset |-> 0, size |-> Ub(s).buffer_size]>>

====
